---- MODULE Spec2Model ----
(***************************************************************************)
(* Model of main.py: a Streamlit inventory tracker that keeps four         *)
(* datasets (inventory.csv, sales.csv, orders.csv, products.json) as files *)
(* of one Google Drive folder.                                             *)
(*                                                                         *)
(*  - A Drive folder is a sequence of files; a file id is its position.    *)
(*  - The bytes of a file are a record: fmt "csv" holds the lines of a CSV *)
(*    text (each line the sequence of its fields), fmt "json" holds the    *)
(*    (key, value) pairs of a JSON object in order.                        *)
(*  - A DataFrame is a record of its columns and its rows; a cell is a     *)
(*    typed value (number, string, date object or NaN).                    *)
(*  - Line 25 builds drive_service from the name credentials, which only   *)
(*    the commented-out lines 20-21 define (line 23 defines creds); the    *)
(*    model takes drive_service as built.                                  *)
(***************************************************************************)
EXTENDS Integers, Sequences, FiniteSets, TLC

\* ------------------------------------------------------------------ bounds
MaxRows == 2        \* rows held by the three tables together
MaxAmount == 1      \* quantities are drawn from 0..MaxAmount, prices are MaxAmount

\* --------------------------------------------------------------- constants
inventory_file == "inventory.csv"
sales_file == "sales.csv"
orders_file == "orders.csv"
products_file == "products.json"

units == <<"kg", "ltr", "nos">>
status_options == <<"Pending", "Completed", "Cancelled">>

InventoryColumns == <<"Date", "Product", "Quantity", "Unit", "Price", "Total">>
OrdersColumns == <<"Date", "Product", "Quantity", "Unit", "Price", "Total", "Party", "Advance", "Status">>

default_products ==
    << <<"Dahi", "kg">>, <<"Basundi", "ltr">>, <<"Lassi", "ltr">>, <<"Pedha", "nos">>,
       <<"BadamShek", "ltr">>, <<"GulabJamun", "nos">>, <<"Paneer", "kg">>,
       <<"Shrikhand", "kg">>, <<"Milk", "ltr">>, <<"Butter", "kg">> >>

Range(s) == {s[i] : i \in 1..Len(s)}

\* ------------------------------------------------------------------- cells
Num(n) == [k |-> "num", n |-> n, s |-> ""]
Str(t) == [k |-> "str", n |-> 0, s |-> t]
DateObj(d) == [k |-> "date", n |-> d, s |-> ""]
NaN == [k |-> "nan", n |-> 0, s |-> ""]

\* largest number a cell of the model can hold (a Total)
MaxNumber == (MaxAmount + 1) * (MaxAmount + 1)

\* str() of a datetime.date
DateText(d) == "2024-01-0" \o ToString(d)

\* the text DataFrame.to_csv writes for one cell
CellText(c) ==
    CASE c.k = "num" -> ToString(c.n)
      [] c.k = "str" -> c.s
      [] c.k = "date" -> DateText(c.n)
      [] OTHER -> ""

\* the strings pandas.read_csv reads as a missing value
na_values == {"", "#N/A", "N/A", "NA", "NULL", "NaN", "None", "n/a", "nan", "null", "<NA>"}

NumberTexts == {ToString(n) : n \in 0..MaxNumber}
IsNumberText(t) == t \in NumberTexts
NumberOf(t) == CHOOSE n \in 0..MaxNumber : ToString(n) = t

\* ------------------------------------------------------------- data frames
EmptyFrame == [columns |-> <<>>, rows |-> <<>>]
FrameOf(cols) == [columns |-> cols, rows |-> <<>>]

\* DataFrame.empty: any axis of length 0
IsEmptyFrame(df) == Len(df.columns) = 0 \/ Len(df.rows) = 0

ColIdx(cols, c) == CHOOSE i \in 1..Len(cols) : cols[i] = c
HasCol(cols, c) == \E i \in 1..Len(cols) : cols[i] = c

\* DataFrame.equals: same columns, same rows, same cells
equals(a, b) == a.columns = b.columns /\ a.rows = b.rows

\* the bytes of a file
CsvBytes(lines) == [fmt |-> "csv", body |-> lines]
JsonBytes(pairs) == [fmt |-> "json", body |-> pairs]
\* "if data:" is false for None (and for a zero-length content, which no
\* writer of this program produces)
Truthy(data) == data.fmt \notin {"none", "empty"}

\* df.to_csv(index=False): the header line, then one line per row
to_csv(df) ==
    CsvBytes(<<df.columns>> \o
             [i \in 1..Len(df.rows) |->
                 [j \in 1..Len(df.columns) |-> CellText(df.rows[i][j])]])

\* a line without fields is a blank line, which read_csv skips
NonBlank(lines) == SelectSeq(lines, LAMBDA l : Len(l) > 0)

\* read_csv infers one type per column: a column whose present values are all
\* numbers is numeric, any other column holds strings; missing values are NaN
ColumnIsNumeric(body, j) ==
    \A i \in 1..Len(body) :
        j <= Len(body[i]) => (body[i][j] \in na_values \/ IsNumberText(body[i][j]))

ParseCell(body, i, j, numeric) ==
    IF j > Len(body[i]) \/ body[i][j] \in na_values THEN NaN
    ELSE IF numeric THEN Num(NumberOf(body[i][j]))
    ELSE Str(body[i][j])

\* pd.read_csv(io.BytesIO(data)): ok is FALSE for EmptyDataError
\* ("No columns to parse from file")
read_csv(data) ==
    LET lines == NonBlank(data.body) IN
    IF data.fmt # "csv" \/ Len(lines) = 0
    THEN [ok |-> FALSE, df |-> EmptyFrame]
    ELSE LET header == Head(lines)
             body == Tail(lines)
             numeric == [j \in 1..Len(header) |-> ColumnIsNumeric(body, j)]
         IN [ok |-> TRUE,
             df |-> [columns |-> header,
                     rows |-> [i \in 1..Len(body) |->
                                  [j \in 1..Len(header) |-> ParseCell(body, i, j, numeric[j])]]]]

\* pd.concat([df, new_row], ignore_index=True): the union of the columns in
\* order of first appearance, missing cells filled with NaN
Reindex(row, from, to) ==
    [j \in 1..Len(to) |-> IF HasCol(from, to[j]) THEN row[ColIdx(from, to[j])] ELSE NaN]

concat(df, new_row) ==
    LET extra == SelectSeq(new_row.columns, LAMBDA c : ~HasCol(df.columns, c))
        cols == df.columns \o extra
    IN [columns |-> cols,
        rows |-> [i \in 1..Len(df.rows) |-> Reindex(df.rows[i], df.columns, cols)] \o
                 [i \in 1..Len(new_row.rows) |-> Reindex(new_row.rows[i], new_row.columns, cols)]]

\* ------------------------------------------------------------ Drive folder
\* what download_file returns when get_file_id finds nothing
None == [fmt |-> "none", body |-> <<>>]

File(name, data) == [name |-> name, data |-> data]

\* files().list(q="name=... and FOLDER_ID in parents and trashed=false")
ListFiles(d, file_name) == {i \in 1..Len(d) : d[i].name = file_name}

\* items[0]['id'] if items else None; 0 stands for None
get_file_id(d, file_name) ==
    IF ListFiles(d, file_name) = {} THEN 0
    ELSE CHOOSE i \in ListFiles(d, file_name) : \A j \in ListFiles(d, file_name) : i <= j

\* a writer that leaves an existing file as it is
WrittenIfAbsent(d, file_id, file_name, data) ==
    IF file_id # 0 THEN d ELSE Append(d, File(file_name, data))

\* lines 50-54: files().update(fileId=file_id) or files().create(name, parents)
Written(d, file_id, file_name, data) ==
    IF file_id # 0
    THEN [d EXCEPT ![file_id].data = data]
    ELSE Append(d, File(file_name, data))

upload_file(d, file_name, data) ==
    Written(d, get_file_id(d, file_name), file_name, data)

\* fetch_ok is FALSE when the get_media request fails (HttpError); nothing in
\* download_file catches it
download_file(d, file_name, fetch_ok) ==
    LET file_id == get_file_id(d, file_name) IN
    IF file_id = 0 THEN [raised |-> FALSE, data |-> None]
    ELSE IF ~fetch_ok THEN [raised |-> TRUE, data |-> None]
    ELSE [raised |-> FALSE, data |-> d[file_id].data]

\* an ensure that uploads the empty table without looking first
ensure_always(d, file_name, columns) ==
    upload_file(d, file_name, to_csv(FrameOf(columns)))

ensure_file_exists(d, file_name, columns) ==
    IF get_file_id(d, file_name) = 0
    THEN upload_file(d, file_name, to_csv(FrameOf(columns)))
    ELSE d

\* a load_data that swallows a failed fetch and returns the empty table
load_data_lenient(d, file_name, fetch_ok) ==
    LET got == download_file(d, file_name, fetch_ok) IN
    IF got.raised THEN [ok |-> TRUE, df |-> EmptyFrame]
    ELSE IF Truthy(got.data) THEN read_csv(got.data)
    ELSE [ok |-> TRUE, df |-> EmptyFrame]

\* ok is FALSE when download_file or read_csv raised
load_data(d, file_name, fetch_ok) ==
    LET got == download_file(d, file_name, fetch_ok) IN
    IF got.raised THEN [ok |-> FALSE, df |-> EmptyFrame]
    ELSE IF Truthy(got.data) THEN read_csv(got.data)
    ELSE [ok |-> TRUE, df |-> EmptyFrame]

save_data(d, df, file_name) == upload_file(d, file_name, to_csv(df))

save_products(d, products_dict) == upload_file(d, products_file, JsonBytes(products_dict))

\* a load_products that returns the defaults without storing them
load_products_unsaved(d) ==
    LET got == download_file(d, products_file, TRUE) IN
    IF Truthy(got.data)
    THEN [products |-> got.data.body, drive |-> d]
    ELSE [products |-> default_products, drive |-> d]

\* returns the catalog (the pairs of the dict in order) and the folder it leaves
load_products(d) ==
    LET got == download_file(d, products_file, TRUE) IN
    IF Truthy(got.data)
    THEN [products |-> got.data.body, drive |-> d]
    ELSE [products |-> default_products, drive |-> save_products(d, default_products)]

\* ------------------------------------------------------------- dict helpers
Keys(products) == {products[i][1] : i \in 1..Len(products)}
UnitOf(products, name) == products[CHOOSE i \in 1..Len(products) : products[i][1] = name][2]

\* ------------------------------------------------------------------- forms
Amounts == 0..MaxAmount
\* the prices the forms of a session are submitted with
Prices == {MaxAmount}
\* the days datetime.now().date() takes
Days == {1}

\* a total that adds
total_sum(quantity, price) == quantity + price

\* line 200 (225, 252)
total(quantity, price) == quantity * price

InventoryRow(day, product, quantity, unit, price) ==
    [columns |-> InventoryColumns,
     rows |-> << <<DateObj(day), Str(product), Num(quantity), Str(unit), Num(price),
                   Num(total(quantity, price))>> >>]

OrderRow(day, product, quantity, unit, price, party, advance) ==
    [columns |-> OrdersColumns,
     rows |-> << <<DateObj(day), Str(product), Num(quantity), Str(unit), Num(price),
                   Num(total(quantity, price)), Str(party), Num(advance), Str("Pending")>> >>]

\* lines 189 and 199-205 (229, 257 for sales and orders): load_data, concat, save_data
AddEntry(d, file_name, new_row, fetch_ok) ==
    LET loaded == load_data(d, file_name, fetch_ok) IN
    IF ~loaded.ok
    THEN [drive |-> d, msg |-> "exception", loaded |-> loaded]
    ELSE [drive |-> save_data(d, concat(loaded.df, new_row), file_name),
          msg |-> "added successfully.", loaded |-> loaded]

VARIABLES
    drive,   \* the files of the Drive folder FOLDER_ID
    event,   \* the call or the user interaction the last step handled
    ret,     \* what the last record-store call returned
    msg,     \* the last st.success / st.warning / st.error shown, or "exception"
    calls,   \* number of record-store calls made
    sess     \* concurrent sessions: where each script run is, and its locals
vars == <<drive, event, ret, msg, calls, sess>>

NoEvent == [kind |-> "start"]

Sessions == {1, 2}
NoSubmit == [on |-> FALSE, quantity |-> 0, price |-> 0]
Idle == [pc |-> "idle", stage |-> "", idx |-> 0, name |-> "", file_id |-> 0,
         data |-> None, df |-> EmptyFrame, submit |-> NoSubmit, msg |-> "", runs |-> 0]
NoRet == [ok |-> TRUE, df |-> EmptyFrame]

\* --------------------------------------------------- record store, call by call
MaxCalls == 2

CsvNames == {inventory_file, sales_file, orders_file}
ColumnsOf(file_name) == IF file_name = orders_file THEN OrdersColumns ELSE InventoryColumns

PartyNames == {"", "Acme"}

\* tables handed to save_data
SampleFrames ==
    {EmptyFrame, FrameOf(InventoryColumns), FrameOf(OrdersColumns)}
    \cup {InventoryRow(1, "Milk", q, "ltr", MaxAmount) : q \in Amounts}
    \cup {OrderRow(1, "Milk", MaxAmount, "ltr", MaxAmount, party, 0) : party \in PartyNames}
    \cup {read_csv(to_csv(OrderRow(1, "Milk", MaxAmount, "ltr", MaxAmount, "Acme", 0))).df}

StoreInit ==
    /\ drive \in {<<>>,
                  <<File(inventory_file, to_csv(InventoryRow(1, "Milk", 1, "ltr", 1)))>>,
                  <<File(products_file, JsonBytes(<< <<"Milk", "ltr">> >>))>>}
    /\ event = NoEvent
    /\ ret = NoRet
    /\ msg = ""
    /\ calls = 0
    /\ sess = [s \in Sessions |-> Idle]

CallEnsure ==
    \E file_name \in CsvNames :
        /\ calls < MaxCalls
        /\ calls' = calls + 1
        /\ drive' = ensure_file_exists(drive, file_name, ColumnsOf(file_name))
        /\ event' = [kind |-> "ensure", name |-> file_name,
                     found |-> get_file_id(drive, file_name) # 0]
        /\ UNCHANGED <<ret, msg, sess>>

\* save_data(T, name) followed by load_data(name)
CallSaveLoad ==
    \E file_name \in CsvNames, T \in SampleFrames :
        /\ calls < MaxCalls
        /\ calls' = calls + 1
        /\ drive' = save_data(drive, T, file_name)
        /\ ret' = load_data(drive', file_name, TRUE)
        /\ event' = [kind |-> "save_load", name |-> file_name, df |-> T]
        /\ UNCHANGED <<msg, sess>>

CallLoadProducts ==
    /\ calls < MaxCalls
    /\ calls' = calls + 1
    /\ drive' = load_products(drive).drive
    /\ ret' = [ok |-> TRUE, products |-> load_products(drive).products]
    /\ event' = [kind |-> "load_products", found |-> get_file_id(drive, products_file) # 0]
    /\ UNCHANGED <<msg, sess>>

\* load_data(name), then the caller appends one row and saves
CallAppend ==
    \E file_name \in {inventory_file, sales_file}, q \in Amounts, p \in Amounts,
       fetch_ok \in BOOLEAN :
        LET new_row == InventoryRow(1, "Milk", q, "ltr", p)
            out == AddEntry(drive, file_name, new_row, fetch_ok)
        IN /\ calls < MaxCalls
           /\ calls' = calls + 1
           /\ drive' = out.drive
           /\ msg' = out.msg
           /\ ret' = out.loaded
           /\ event' = [kind |-> "append", name |-> file_name,
                        found |-> get_file_id(drive, file_name) # 0,
                        fetch_ok |-> fetch_ok, row |-> to_csv(new_row).body[2]]
           /\ UNCHANGED sess

StoreNext == CallEnsure \/ CallSaveLoad \/ CallLoadProducts \/ CallAppend
SpecStore == StoreInit /\ [][StoreNext]_vars

\* the content of the first file called file_name, None when there is none
Stored(d, file_name) ==
    IF get_file_id(d, file_name) = 0 THEN None ELSE d[get_file_id(d, file_name)].data

\* the data lines (without the header) of a stored CSV
StoredRows(d, file_name) ==
    LET lines == NonBlank(Stored(d, file_name).body) IN
    IF Len(lines) = 0 THEN <<>> ELSE Tail(lines)

\* C1: save_data(T, name) followed by load_data(name) returns a table equal
\* to T (same columns, same rows, each in the same order), for every table T
\* and every dataset name.
RoundTrip ==
    event.kind = "save_load" => (ret.ok /\ equals(ret.df, event.df))

\* C2: ensure_file_exists changes nothing when the name is present (rows kept),
\* creates exactly one file holding only the header when it is absent, and
\* a further call leaves the folder as the first call left it.
EnsureIdempotent ==
    [][event'.kind = "ensure" =>
        LET n == event'.name IN
        /\ (ListFiles(drive, n) # {} => drive' = drive)
        /\ (ListFiles(drive, n) = {} =>
               drive' = Append(drive, File(n, CsvBytes(<<ColumnsOf(n)>>))))
        /\ Cardinality(ListFiles(drive', n)) = 1
        /\ ensure_file_exists(drive', n, ColumnsOf(n)) = drive']_vars

EnsureKeptRows ==
    /\ event.kind = "ensure"
    /\ event.found
    /\ Len(StoredRows(drive, event.name)) > 0
    /\ calls = MaxCalls

TenDefaults ==
    << <<"Dahi", "kg">>, <<"Basundi", "ltr">>, <<"Lassi", "ltr">>, <<"Pedha", "nos">>,
       <<"BadamShek", "ltr">>, <<"GulabJamun", "nos">>, <<"Paneer", "kg">>,
       <<"Shrikhand", "kg">>, <<"Milk", "ltr">>, <<"Butter", "kg">> >>

\* C5: without a products.json, load_products returns the ten defaults and
\* stores them, so that the next load_products reads the same mapping from
\* the store; with a products.json it writes nothing.
CatalogSeeding ==
    [][event'.kind = "load_products" =>
        /\ (ListFiles(drive, products_file) = {} =>
               /\ ret'.products = TenDefaults
               /\ drive' = Append(drive, File(products_file, JsonBytes(TenDefaults)))
               /\ load_products(drive').products = ret'.products
               /\ load_products(drive').drive = drive')
        /\ (ListFiles(drive, products_file) # {} =>
               /\ drive' = drive
               /\ ret'.products = Stored(drive, products_file).body)]_vars

CatalogSeeded ==
    /\ event.kind = "load_products"
    /\ ~event.found
    /\ Stored(drive, products_file) = JsonBytes(TenDefaults)
    /\ ret.products = TenDefaults

\* C7 as stated: load_data gives an empty table both when the name is absent
\* and when the fetch of an existing file fails, so an append then writes a
\* dataset holding exactly the new row.
LoadNeverFails ==
    (event.kind = "append" /\ (~event.found \/ ~event.fetch_ok)) =>
        /\ msg = "added successfully."
        /\ StoredRows(drive, event.name) = <<event.row>>

\* C7 amended: load_data gives an empty table when the name is absent, and the
\* append then writes exactly the header and the new row; when the fetch of an
\* existing file fails the error reaches the caller and nothing is written.
LoadAbsentOrRaises ==
    [][event'.kind = "append" =>
        /\ (~event'.found =>
               /\ ret' = [ok |-> TRUE, df |-> EmptyFrame]
               /\ msg' = "added successfully."
               /\ drive' = Append(drive, File(event'.name,
                                              CsvBytes(<<InventoryColumns, event'.row>>))))
        /\ ((event'.found /\ ~event'.fetch_ok) =>
               /\ ~ret'.ok
               /\ msg' = "exception"
               /\ drive' = drive)]_vars

AppendedToAbsent ==
    /\ event.kind = "append"
    /\ ~event.found
    /\ msg = "added successfully."
    /\ StoredRows(drive, event.name) = <<event.row>>

\* ------------------------------------------------------------ the grid
\* What the user did in the Orders grid: the set filter on the Status column
\* ("all" when none), the column sorted ascending ("" when none), and the
\* edited Status cell (pos is the row's position in the displayed rows, 0 when
\* nothing was edited).
NoGrid == [filter |-> "all", sort |-> "", pos |-> 0, status |-> ""]

Indices(n) == [i \in 1..n |-> i]
Front(s) == SubSeq(s, 1, Len(s) - 1)

\* stable insertion of index i among the indices s already sorted by key
InsertSorted(s, i, key) ==
    LET k == Cardinality({j \in 1..Len(s) : key[s[j]] <= key[i]})
    IN SubSeq(s, 1, k) \o <<i>> \o SubSeq(s, k + 1, Len(s))

RECURSIVE SortIndices(_, _)
SortIndices(s, key) ==
    IF s = <<>> THEN <<>>
    ELSE InsertSorted(SortIndices(Front(s), key), s[Len(s)], key)

\* DataReturnMode.FILTERED_AND_SORTED: the indices of the rows of df the grid
\* returns, in the order it returns them
GridView(df, grid) ==
    LET st == ColIdx(df.columns, "Status")
        shown == SelectSeq(Indices(Len(df.rows)),
                           LAMBDA i : grid.filter = "all" \/ df.rows[i][st].s = grid.filter)
    IN IF grid.sort = "" THEN shown
       ELSE SortIndices(shown, [i \in 1..Len(df.rows) |->
                                   df.rows[i][ColIdx(df.columns, grid.sort)].n])

\* show_aggrid(df, editable_cols=["Status"], return_df=True)
show_aggrid(df, grid) ==
    IF IsEmptyFrame(df) THEN EmptyFrame
    ELSE LET view == GridView(df, grid)
             st == ColIdx(df.columns, "Status")
         IN [columns |-> df.columns,
             rows |-> [v \in 1..Len(view) |->
                          IF v = grid.pos
                          THEN [df.rows[view[v]] EXCEPT ![st] = Str(grid.status)]
                          ELSE df.rows[view[v]]]]

\* --------------------------------------------------------- one script run
\* lines 137-139
EnsureAll(d) ==
    ensure_file_exists(
        ensure_file_exists(
            ensure_file_exists(d, inventory_file, InventoryColumns),
            sales_file, InventoryColumns),
        orders_file, OrdersColumns)

Out(d, m) == [drive |-> d, msg |-> m]

\* lines 149-184: the Reports page loads the three tables, then the catalog
RunReports(d) ==
    LET d0 == EnsureAll(d) IN
    IF \E f \in {inventory_file, sales_file, orders_file} : ~load_data(d0, f, TRUE).ok
    THEN Out(d0, "exception")
    ELSE Out(load_products(d0).drive, "")

\* lines 186-209 and 211-234 without a submission
RunEntryPage(d, file_name) ==
    LET lp == load_products(EnsureAll(d)) IN
    IF ~load_data(lp.drive, file_name, TRUE).ok
    THEN Out(lp.drive, "exception")
    ELSE Out(lp.drive, "")

\* lines 236-265 without a form submission: the grid's answer is compared
\* with the table loaded and saved when it differs
RunOrders(d, grid) ==
    LET lp == load_products(EnsureAll(d))
        loaded == load_data(lp.drive, orders_file, TRUE)
        updated_df == show_aggrid(loaded.df, grid)
    IN IF ~loaded.ok THEN Out(lp.drive, "exception")
       ELSE IF ~equals(updated_df, loaded.df)
       THEN Out(save_data(lp.drive, updated_df, orders_file), "Order status updated.")
       ELSE Out(lp.drive, "")

\* lines 267-273
RunProductsPage(d) == Out(load_products(EnsureAll(d)).drive, "")

Pages == {"Reports", "Inventory", "Sales", "Orders", "Add Products"}

RunPage(d, page) ==
    CASE page = "Reports" -> RunReports(d)
      [] page = "Inventory" -> RunEntryPage(d, inventory_file)
      [] page = "Sales" -> RunEntryPage(d, sales_file)
      [] page = "Orders" -> RunOrders(d, NoGrid)
      [] OTHER -> RunProductsPage(d)

PageOf(file_name) ==
    CASE file_name = inventory_file -> "Inventory"
      [] file_name = sales_file -> "Sales"
      [] OTHER -> "Orders"

\* a run in which the add form of the page is submitted: load, append, save,
\* st.rerun() (which runs the page once more)
RunSubmit(d, file_name, new_row) ==
    LET lp == load_products(EnsureAll(d))
        out == AddEntry(lp.drive, file_name, new_row, TRUE)
    IN IF out.msg = "exception" THEN Out(out.drive, "exception")
       ELSE Out(RunPage(out.drive, PageOf(file_name)).drive, out.msg)

\* products[new_product] = new_unit
DictSet(products, key, value) ==
    IF key \in Keys(products)
    THEN [i \in 1..Len(products) |->
             IF products[i][1] = key THEN <<key, value>> ELSE products[i]]
    ELSE Append(products, <<key, value>>)

\* str.strip() on the names the Add Product form is given here
Strip(t) == IF t = " " THEN "" ELSE t

\* an Add Product handler without the "already exists" branch
RunAddProductOverwrite(d, new_product, new_unit) ==
    LET lp == load_products(EnsureAll(d))
        products == lp.products
    IN IF Strip(new_product) = "" THEN Out(lp.drive, "Product name cannot be empty.")
       ELSE Out(RunProductsPage(save_products(lp.drive,
                                              DictSet(products, new_product, new_unit))).drive,
                "Product added.")

\* lines 267-289 with the Add Product form submitted
RunAddProduct(d, new_product, new_unit) ==
    LET lp == load_products(EnsureAll(d))
        products == lp.products
    IN IF Strip(new_product) = "" THEN Out(lp.drive, "Product name cannot be empty.")
       ELSE IF new_product \in Keys(products) THEN Out(lp.drive, "Product already exists.")
       ELSE Out(RunProductsPage(save_products(lp.drive,
                                              DictSet(products, new_product, new_unit))).drive,
                "Product added.")

\* ------------------------------------------------------ one session, pages
FormProducts == {"Milk"}
FormParties == {"Acme"}

TotalRows(d) ==
    Len(StoredRows(d, inventory_file)) + Len(StoredRows(d, sales_file))
        + Len(StoredRows(d, orders_file))

\* the catalog the forms of a page offer
Catalog(d) == load_products(d).products

AppInit ==
    /\ drive \in {<<>>} \cup
          {<<File(orders_file, to_csv(OrderRow(day, "Milk", q, "ltr", p, party, 0)))>> :
              day \in Days, q \in Amounts, p \in Prices, party \in FormParties}
    /\ event = NoEvent
    /\ ret = NoRet
    /\ msg = ""
    /\ calls = 0
    /\ sess = [s \in Sessions |-> Idle]

\* the user opens a page
ViewPage ==
    \E page \in Pages :
        /\ drive' = RunPage(drive, page).drive
        /\ msg' = RunPage(drive, page).msg
        /\ event' = [kind |-> "view"]
        /\ UNCHANGED <<ret, calls, sess>>

\* The user opens the Inventory or the Sales page and submits its form; the
\* unit is the one the selectbox preselects, products[product].
AddInventoryOrSale(file_name) ==
    LET shown == RunPage(drive, PageOf(file_name)) IN
    /\ shown.msg # "exception"
    /\ TotalRows(drive) < MaxRows
    /\ \E product \in Keys(Catalog(shown.drive)) \cap FormProducts,
       quantity \in Amounts, price \in Prices, day \in Days :
        LET unit == UnitOf(Catalog(shown.drive), product)
            out == RunSubmit(shown.drive, file_name,
                             InventoryRow(day, product, quantity, unit, price))
        IN /\ drive' = out.drive
           /\ msg' = out.msg
           /\ event' = [kind |-> "add", name |-> file_name]
           /\ UNCHANGED <<ret, calls, sess>>

AddInventory == AddInventoryOrSale(inventory_file)
AddSale == AddInventoryOrSale(sales_file)

\* the user opens the Orders page and submits its form
AddOrder ==
    LET shown == RunPage(drive, "Orders") IN
    /\ shown.msg # "exception"
    /\ TotalRows(drive) < MaxRows
    /\ \E product \in Keys(Catalog(shown.drive)) \cap FormProducts,
       quantity \in Amounts, price \in Prices, day \in Days, party \in FormParties :
        LET unit == UnitOf(Catalog(shown.drive), product)
            out == RunSubmit(shown.drive, orders_file,
                             OrderRow(day, product, quantity, unit, price, party, 0))
        IN /\ drive' = out.drive
           /\ msg' = out.msg
           /\ event' = [kind |-> "add", name |-> orders_file]
           /\ UNCHANGED <<ret, calls, sess>>

\* The user opens the Orders page, filters or sorts the grid or leaves it as
\* it is, and picks another Status for one displayed row.
GridFilters == {"all", "Pending"}
GridSorts == {"", "Quantity"}

EditStatus ==
    LET shown == RunPage(drive, "Orders")
        orders_df == load_data(shown.drive, orders_file, TRUE).df
    IN /\ shown.msg # "exception"
       /\ ~IsEmptyFrame(orders_df)
       /\ \E filter \in GridFilters, sort \in GridSorts :
            LET view == GridView(orders_df, [NoGrid EXCEPT !.filter = filter, !.sort = sort])
                st == ColIdx(orders_df.columns, "Status")
            IN \E pos \in 1..Len(view) :
                 \E status \in Range(status_options) \ {orders_df.rows[view[pos]][st].s} :
                    LET grid == [filter |-> filter, sort |-> sort,
                                 pos |-> pos, status |-> status]
                        out == RunOrders(shown.drive, grid)
                    IN /\ drive' = out.drive
                       /\ msg' = out.msg
                       /\ event' = [kind |-> "edit"]
                       /\ UNCHANGED <<ret, calls, sess>>

\* ------------------------------------------------- one session, catalog
MaxNewProducts == 1
NewProductNames == {"", " ", "Ghee", "Dahi", "dahi"}

\* the user opens the Add Products page and submits its form
AddProduct ==
    LET shown == RunPage(drive, "Add Products") IN
    \E new_product \in NewProductNames, new_unit \in Range(units) :
        LET out == RunAddProduct(shown.drive, new_product, new_unit)
        IN /\ \/ Len(Catalog(drive)) < Len(default_products) + MaxNewProducts
              \/ new_product \in Keys(Catalog(drive))
              \/ Strip(new_product) = ""
           /\ drive' = out.drive
           /\ msg' = out.msg
           /\ event' = [kind |-> "add_product", name |-> new_product, unit |-> new_unit]
           /\ UNCHANGED <<ret, calls, sess>>

CatalogInit ==
    /\ drive = <<>>
    /\ event = NoEvent
    /\ ret = NoRet
    /\ msg = ""
    /\ calls = 0
    /\ sess = [s \in Sessions |-> Idle]

CatalogNext == ViewPage \/ AddProduct
SpecCatalog == CatalogInit /\ [][CatalogNext]_vars

\* C6: an Add Product submission whose name is a key of the catalog writes
\* nothing: every file keeps its content, the stored catalog is the catalog
\* as loaded (the unit is not overwritten) and the outcome is "Product
\* already exists.", not the success message.
DuplicateRejected ==
    [][(event'.kind = "add_product" /\ event'.name \in Keys(Catalog(drive))) =>
        /\ msg' = "Product already exists."
        /\ \A i \in 1..Len(drive) : drive'[i] = drive[i]
        /\ Stored(drive', products_file) = JsonBytes(Catalog(drive))
        /\ Cardinality(ListFiles(drive', products_file)) = 1]_vars

DuplicateSubmitted ==
    /\ event.kind = "add_product"
    /\ msg = "Product already exists."
    /\ event.name \in Keys(Stored(drive, products_file).body)
    /\ event.unit # UnitOf(Stored(drive, products_file).body, event.name)
    /\ Len(Stored(drive, products_file).body) > Len(default_products)

Init == AppInit
Next == ViewPage \/ AddInventory \/ AddSale \/ AddOrder \/ EditStatus
Spec == Init /\ [][Next]_vars

\* positions of the fields in a line of a stored table
QuantityField == ColIdx(OrdersColumns, "Quantity")
PriceField == ColIdx(OrdersColumns, "Price")
TotalField == ColIdx(OrdersColumns, "Total")
StatusField == ColIdx(OrdersColumns, "Status")

\* C3: a Status edit through the Orders grid writes back the same number of
\* rows in the same order; one row's Status differs and every other field of
\* every row is unchanged, whether or not the grid was filtered or sorted.
StatusEditLaw ==
    [][event'.kind = "edit" =>
        LET a == StoredRows(drive, orders_file)
            b == StoredRows(drive', orders_file)
        IN /\ Len(b) = Len(a)
           /\ \E r \in 1..Len(a) :
                 /\ b[r][StatusField] # a[r][StatusField]
                 /\ \A i \in 1..Len(a) : \A j \in 1..Len(a[i]) :
                       (i # r \/ j # StatusField) => b[i][j] = a[i][j]]_vars

\* C8: no step of a session removes or moves a row of inventory.csv, sales.csv
\* or orders.csv; a row changes at most in the Status field of an order.
RowsNeverDeleted ==
    [][\A f \in CsvNames :
        LET a == StoredRows(drive, f)
            b == StoredRows(drive', f)
        IN /\ Len(b) >= Len(a)
           /\ \A i \in 1..Len(a) : \A j \in 1..Len(a[i]) :
                 (f # orders_file \/ j # StatusField) => b[i][j] = a[i][j]]_vars

\* every stored row has Total = Quantity * Price
TotalsHold ==
    \A f \in CsvNames :
        \A i \in 1..Len(StoredRows(drive, f)) :
            LET row == StoredRows(drive, f)[i]
            IN NumberOf(row[TotalField]) = NumberOf(row[QuantityField]) * NumberOf(row[PriceField])

\* C9: a submitted form appends one row whose Total is Quantity * Price of
\* that row (Status "Pending" for an order), and every stored row keeps
\* Total = Quantity * Price through all appends and status edits.
TotalAtWriteTime ==
    /\ []TotalsHold
    /\ [][(event'.kind = "add" /\ msg' = "added successfully.") =>
            LET a == StoredRows(drive, event'.name)
                b == StoredRows(drive', event'.name)
                last == b[Len(b)]
            IN /\ Len(b) = Len(a) + 1
               /\ SubSeq(b, 1, Len(a)) = a
               /\ last[TotalField] =
                     ToString(NumberOf(last[QuantityField]) * NumberOf(last[PriceField]))
               /\ (event'.name = orders_file => last[StatusField] = "Pending")]_vars

\* an order with a non-zero Total was appended behind an order whose Status
\* had been edited
AppendedAfterEdit ==
    /\ event.kind = "add"
    /\ event.name = orders_file
    /\ msg = "added successfully."
    /\ Len(StoredRows(drive, orders_file)) = 2
    /\ StoredRows(drive, orders_file)[1][StatusField] = "Completed"
    /\ StoredRows(drive, orders_file)[2][StatusField] = "Pending"
    /\ NumberOf(StoredRows(drive, orders_file)[2][TotalField]) > 0

\* ------------------------------------- concurrent sessions, call by call
\* Each session runs the script for the Inventory page, with or without the
\* form submitted; every request to Drive (files().list, get_media, update,
\* create) is one step, and the steps of the sessions interleave.
MaxRuns == 1

\* the quantities the sessions' forms are submitted with
SessionAmounts == {0, MaxAmount}

EnsureFiles == <<inventory_file, sales_file, orders_file>>

\* what files().list can make get_file_id return: 0 (None) when nothing
\* matches, else the id of a matching file (Drive fixes no order among them)
GetFileIds(d, file_name) ==
    IF ListFiles(d, file_name) = {} THEN {0} ELSE ListFiles(d, file_name)

\* after ensure_file_exists number idx: the next one, then load_products
AfterEnsure(loc) ==
    IF loc.idx < Len(EnsureFiles)
    THEN [loc EXCEPT !.idx = @ + 1, !.pc = "ensure_lookup", !.stage = "", !.data = None,
                     !.file_id = 0, !.name = ""]
    ELSE [loc EXCEPT !.stage = "products", !.name = products_file, !.data = None,
                     !.file_id = 0, !.pc = "download_lookup"]

Finished(loc, m) == [Idle EXCEPT !.msg = m, !.runs = loc.runs]

\* where upload_file returns to
AfterUpload(loc) ==
    CASE loc.stage = "ensure" -> AfterEnsure(loc)
      [] loc.stage = "seed" ->
            [loc EXCEPT !.stage = "load", !.name = inventory_file, !.data = None,
                        !.file_id = 0, !.pc = "download_lookup"]
      [] OTHER -> Finished(loc, "added successfully.")

\* where download_file returns to, with the bytes (or None) it returns
AfterDownload(loc, data) ==
    IF loc.stage = "products"
    THEN IF Truthy(data)
         THEN [loc EXCEPT !.stage = "load", !.name = inventory_file, !.data = None,
                          !.file_id = 0, !.pc = "download_lookup"]
         ELSE [loc EXCEPT !.stage = "seed", !.name = products_file, !.file_id = 0,
                          !.data = JsonBytes(default_products), !.pc = "upload_lookup"]
    ELSE LET loaded == IF Truthy(data) THEN read_csv(data)
                       ELSE [ok |-> TRUE, df |-> EmptyFrame]
             new_row == InventoryRow(1, "Milk", loc.submit.quantity, "ltr", loc.submit.price)
         IN IF ~loaded.ok THEN Finished(loc, "exception")
            ELSE IF ~loc.submit.on THEN Finished(loc, "")
            ELSE [loc EXCEPT !.stage = "save", !.name = inventory_file, !.file_id = 0,
                             !.df = loaded.df,
                             !.data = to_csv(concat(loaded.df, new_row)),
                             !.pc = "upload_lookup"]

\* a script run begins (line 137)
StartRun(s) ==
    /\ sess[s].pc = "idle"
    /\ sess[s].runs < MaxRuns
    /\ \E submit \in {NoSubmit} \cup
              {[on |-> TRUE, quantity |-> q, price |-> p] : q \in SessionAmounts, p \in Prices} :
          sess' = [sess EXCEPT ![s] = [Idle EXCEPT !.pc = "ensure_lookup", !.idx = 1,
                                                   !.submit = submit,
                                                   !.runs = sess[s].runs + 1]]
    /\ UNCHANGED <<drive, event, ret, msg, calls>>

\* line 70: get_file_id in ensure_file_exists
EnsureLookup(s) ==
    LET loc == sess[s]
        file_name == EnsureFiles[loc.idx]
    IN /\ loc.pc = "ensure_lookup"
       /\ sess' = [sess EXCEPT ![s] =
                     IF ListFiles(drive, file_name) # {}
                     THEN AfterEnsure(loc)
                     ELSE [loc EXCEPT !.stage = "ensure", !.name = file_name,
                                      !.data = to_csv(FrameOf(ColumnsOf(file_name))),
                                      !.pc = "upload_lookup"]]
       /\ UNCHANGED <<drive, event, ret, msg, calls>>

\* line 48: get_file_id in upload_file
UploadLookup(s) ==
    LET loc == sess[s] IN
    /\ loc.pc = "upload_lookup"
    /\ \E id \in GetFileIds(drive, loc.name) :
          sess' = [sess EXCEPT ![s] = [loc EXCEPT !.file_id = id, !.pc = "upload_write"]]
    /\ UNCHANGED <<drive, event, ret, msg, calls>>

\* lines 50-54: update or create
UploadWrite(s) ==
    LET loc == sess[s] IN
    /\ loc.pc = "upload_write"
    /\ drive' = Written(drive, loc.file_id, loc.name, loc.data)
    /\ sess' = [sess EXCEPT ![s] = AfterUpload(loc)]
    /\ UNCHANGED <<event, ret, msg, calls>>

\* lines 57-59: get_file_id in download_file
DownloadLookup(s) ==
    LET loc == sess[s] IN
    /\ loc.pc = "download_lookup"
    /\ \E id \in GetFileIds(drive, loc.name) :
          sess' = [sess EXCEPT ![s] =
                     IF id = 0 THEN AfterDownload(loc, None)
                     ELSE [loc EXCEPT !.file_id = id, !.pc = "download_fetch"]]
    /\ UNCHANGED <<drive, event, ret, msg, calls>>

\* lines 60-67: get_media
DownloadFetch(s) ==
    LET loc == sess[s] IN
    /\ loc.pc = "download_fetch"
    /\ sess' = [sess EXCEPT ![s] = AfterDownload(loc, drive[loc.file_id].data)]
    /\ UNCHANGED <<drive, event, ret, msg, calls>>

ConcInit ==
    /\ drive = <<>>
    /\ event = NoEvent
    /\ ret = NoRet
    /\ msg = ""
    /\ calls = 0
    /\ sess = [s \in Sessions |-> Idle]

ConcNext ==
    \E s \in Sessions :
        \/ StartRun(s)
        \/ EnsureLookup(s)
        \/ UploadLookup(s)
        \/ UploadWrite(s)
        \/ DownloadLookup(s)
        \/ DownloadFetch(s)

SpecConc == ConcInit /\ [][ConcNext]_vars

\* C10: whatever the interleaving of the sessions' upload_file and
\* ensure_file_exists calls, the folder holds at most one file of each name.
OneObjectPerName ==
    \A i, j \in 1..Len(drive) : drive[i].name = drive[j].name => i = j

\* the line to_csv writes for the row a session's form submits
SubmittedLine(submit) ==
    <<DateText(1), "Milk", ToString(submit.quantity), "ltr", ToString(submit.price),
      ToString(submit.quantity * submit.price)>>

\* C4: nothing checks the remote content when a session saves: the save of
\* an add form always succeeds and leaves, in the file it addressed, the rows
\* that session loaded followed by its own row, whatever was written to the
\* file since the load. Two sessions that loaded the same table therefore
\* both succeed and only the last writer's row remains.
LastWriterWins ==
    [][\A s \in Sessions :
        (sess[s].pc = "upload_write" /\ sess[s].stage = "save" /\ sess'[s] # sess[s]) =>
            LET loaded == to_csv(sess[s].df).body
                id == IF sess[s].file_id # 0 THEN sess[s].file_id ELSE Len(drive')
            IN /\ sess'[s].pc = "idle"
               /\ sess'[s].msg = "added successfully."
               /\ drive'[id].name = inventory_file
               /\ drive'[id].data.body =
                     <<InventoryColumns>> \o SubSeq(loaded, 2, Len(loaded))
                         \o <<SubmittedLine(sess[s].submit)>>]_vars

\* both sessions loaded the one inventory.csv while it had no rows, both
\* saves succeeded, and the file holds one row
LostUpdate ==
    /\ \A s \in Sessions : sess[s].pc = "idle" /\ sess[s].msg = "added successfully."
    /\ Cardinality(ListFiles(drive, inventory_file)) = 1
    /\ Len(StoredRows(drive, inventory_file)) = 1
====
